---- MODULE Spec2Model ----
(***************************************************************************)
(* Model of the Walker-constellation TLE generator (src/t_utils.py) and    *)
(* of the page that drives it (src/streamlit_app.py): the password gate    *)
(* and the generation started from the sidebar.                            *)
(*                                                                         *)
(* Text is modelled as a sequence of one-character strings, so that the    *)
(* fixed-width formatting, the truncation to 68 columns and the checksum   *)
(* are computed character by character as the code computes them.          *)
(*                                                                         *)
(* Floating-point values are modelled exactly:                             *)
(*   - angles are rationals [num, den] in lowest terms (degrees);          *)
(*   - the inclination is a rational given in 1/10000 degree;              *)
(*   - lengths are integers in thousandths of a km (6378.137 = 6378137);   *)
(*   - the mean motion is the value line 59 yields for the semi-major      *)
(*     axis, kept as integer part and 8 rounded decimals.                  *)
(* Python formats a float by rounding its exact value half-to-even; the    *)
(* rationals used here never sit on a rounding tie within the bounds.      *)
(***************************************************************************)
EXTENDS Integers, Sequences, FiniteSets, TLC

(***************************************************************************)
(* Bounds of the model.                                                    *)
(***************************************************************************)
MaxPlanes == 2
MaxSats == 2
MaxTail == 3
MaxLines == 3

(***************************************************************************)
(* Characters and strings.                                                 *)
(***************************************************************************)
DigitChars == <<"0", "1", "2", "3", "4", "5", "6", "7", "8", "9">>

AsciiDigits == {DigitChars[i] : i \in 1..10}

\* U+00B2 SUPERSCRIPT TWO: str.isdigit() is True for it, int() rejects it.
SuperscriptTwo == "^2"

DigitChar(d) == DigitChars[d + 1]

DigitValues == [c \in AsciiDigits |-> CHOOSE d \in 0..9 : DigitChars[d + 1] = c]

DigitValue(c) == DigitValues[c]

RECURSIVE Repeat(_, _)
Repeat(c, k) == IF k <= 0 THEN <<>> ELSE <<c>> \o Repeat(c, k - 1)

\* s[:k]
Take(s, k) == IF Len(s) <= k THEN s ELSE SubSeq(s, 1, k)

\* s.ljust(w)
LJust(s, w) == s \o Repeat(" ", w - Len(s))

\* right-aligned in a field of width w (the default for numbers)
RJust(s, w) == Repeat(" ", w - Len(s)) \o s

\* zero-filled in a field of width w (the 0 flag)
ZFill(s, w) == Repeat("0", w - Len(s)) \o s

RECURSIVE IntStr(_)
IntStr(k) == IF k < 10 THEN <<DigitChar(k)>>
             ELSE IntStr(k \div 10) \o <<DigitChar(k % 10)>>

\* f"{k:0wd}" for k >= 0
ZeroPad(k, w) == ZFill(IntStr(k), w)

(***************************************************************************)
(* Exact arithmetic for the float expressions.                             *)
(***************************************************************************)
RECURSIVE GCD(_, _)
GCD(x, y) == IF y = 0 THEN x ELSE GCD(y, x % y)

Rat(n, d) == IF d = 0 THEN [num |-> n, den |-> 0]
             ELSE LET g == GCD(n, d) IN [num |-> n \div g, den |-> d \div g]

RatMul(k, x) == Rat(k * x.num, x.den)

RatAdd(x, y) == Rat(x.num * y.den + y.num * x.den, x.den * y.den)

\* x % 360 for x >= 0
RatMod360(x) == IF x.den = 0 THEN x ELSE Rat(x.num % (360 * x.den), x.den)

RatLess(x, y) == x.num * y.den < y.num * x.den

\* num/den rounded to the nearest integer, ties to even
RoundHalfEven(num, den) ==
    LET q == num \div den
        r == num % den
    IN  IF 2 * r > den \/ (2 * r = den /\ q % 2 = 1) THEN q + 1 ELSE q

\* f"{x:W.4f}" for a rational x >= 0
FormatFixed4(x, w) ==
    LET q == (x.num \div x.den) * 10000
             + RoundHalfEven((x.num % x.den) * 10000, x.den)
    IN  RJust(IntStr(q \div 10000) \o <<".">> \o ZeroPad(q % 10000, 4), w)

\* f"{x:011.8f}"-style digits of day + frac, frac a rational in [0, 1):
\* <<integer part, 8 decimals>>, the decimals rounded and a carry propagated.
Decimals8(day, frac) ==
    LET q1 == (frac.num * 10000) \div frac.den
        r1 == (frac.num * 10000) % frac.den
        f8 == q1 * 10000 + RoundHalfEven(r1 * 10000, frac.den)
    IN  <<day + (f8 \div 100000000), f8 % 100000000>>

(***************************************************************************)
(* Character classes of the name sanitiser (line 102).                     *)
(***************************************************************************)
Uppers == <<"A", "B", "C", "D", "E", "F", "G", "H", "I", "J", "K", "L", "M",
            "N", "O", "P", "Q", "R", "S", "T", "U", "V", "W", "X", "Y", "Z">>

Lowers == <<"a", "b", "c", "d", "e", "f", "g", "h", "i", "j", "k", "l", "m",
            "n", "o", "p", "q", "r", "s", "t", "u", "v", "w", "x", "y", "z">>

UpperSet == {Uppers[i] : i \in 1..26}

LowerSet == {Lowers[i] : i \in 1..26}

\* c.isalnum() on the characters of the model
IsAlnum(c) == c \in AsciiDigits \cup UpperSet \cup LowerSet

\* c.upper()
UpperChar(c) == IF c \in LowerSet
                THEN Uppers[CHOOSE i \in 1..26 : Lowers[i] = c]
                ELSE c

KeepChar(c) == IsAlnum(c) \/ c \in {"_", "-"}

\* ''.join(c for c in name if c.isalnum() or c in ['_', '-']).upper()
CleanName(name) ==
    LET kept == SelectSeq(name, KeepChar)
    IN  [i \in 1..Len(kept) |-> UpperChar(kept[i])]

(***************************************************************************)
(* calculate_checksum (lines 8-16).  The loop runs over line[:68]; a       *)
(* character for which isdigit() holds is handed to int(), which raises    *)
(* ValueError for a digit character that is not a decimal digit.           *)
(***************************************************************************)
\* char.isdigit()
IsDigit(c) == c \in AsciiDigits \cup {SuperscriptTwo}

\* int(char) raises ValueError
IntRaises(c) == c \notin AsciiDigits

\* the window of the line the loop scans
ChecksumWindow(line) == Take(line, 68)

\* what one character adds to s (lines 12-15)
Contribution(c) ==
    IF IsDigit(c) THEN DigitValue(c) ELSE IF c = "-" THEN 1 ELSE 0

\* s after the loop has run over body[lo..hi]; the additions are evaluated
\* by halves, which gives the sum the loop accumulates from left to right
RECURSIVE LoopSum(_, _, _)
LoopSum(body, lo, hi) ==
    IF lo > hi THEN 0
    ELSE IF lo = hi THEN Contribution(body[lo])
    ELSE LET mid == (lo + hi) \div 2
         IN  LoopSum(body, lo, mid) + LoopSum(body, mid + 1, hi)

\* the loop reaches a character that int() rejects
LoopRaises(body) ==
    \E i \in 1..Len(body) : IsDigit(body[i]) /\ IntRaises(body[i])

calculate_checksum(line) ==
    LET body == ChecksumWindow(line)
    IN  IF LoopRaises(body) THEN [raised |-> "ValueError", value |-> 0]
        ELSE [raised |-> "none", value |-> LoopSum(body, 1, Len(body)) % 10]

(***************************************************************************)
(* generate_tle_file_content (lines 350-352).                              *)
(***************************************************************************)
CRLF == <<"\r", "\n">>

\* sep.join(lines)
RECURSIVE Join(_, _)
Join(sep, lines) ==
    IF lines = <<>> THEN <<>>
    ELSE IF Len(lines) = 1 THEN lines[1]
    ELSE lines[1] \o sep \o Join(sep, Tail(lines))

generate_tle_file_content(lines) == Join(CRLF, lines) \o CRLF

(***************************************************************************)
(* generate_random_launch_info (lines 18-34).                              *)
(***************************************************************************)
\* pieces[idx]: 'A'..'Z' followed by 'AA'..'ZZ'
Piece(idx) ==
    IF idx < 26 THEN <<Uppers[idx + 1]>>
    ELSE <<Uppers[((idx - 26) \div 26) + 1], Uppers[((idx - 26) % 26) + 1]>>

\* draw: the three random choices (index into launch_years, the launch
\* number, index into pieces); current_year: datetime.now().year
generate_random_launch_info(current_year, draw) ==
    [launch_year   |-> (current_year - 4 + draw.year_idx) % 100,
     launch_number |-> draw.number,
     launch_piece  |-> Piece(draw.piece_idx)]

(***************************************************************************)
(* Orbital constants (lines 53-61).                                        *)
(***************************************************************************)
\* Earth radius in thousandths of a km
Re == 6378137

\* a = Re + altitude
SemiMajorAxis(altitude) == Re + altitude

\* n = np.sqrt(mu / a**3) * 86400 / (2 * np.pi) at the sampled semi-major
\* axes: [a, integer part of n, 8 rounded decimals of n]
KeplerTable ==
    { [a |-> 6928137, ip |-> 15,   frac |-> 5490646],
      [a |-> 100000,  ip |-> 8681, frac |-> 65976873] }

\* mu / a**3 divides by zero for a = 0 (raised before this value is used);
\* np.sqrt of a negative number is nan
MeanMotion(a) ==
    IF a < 0 THEN [kind |-> "nan", ip |-> 0, frac |-> 0]
    ELSE IF a = 0 THEN [kind |-> "inf", ip |-> 0, frac |-> 0]
    ELSE LET row == CHOOSE r \in KeplerTable : r.a = a
         IN  [kind |-> "finite", ip |-> row.ip, frac |-> row.frac]

\* f"{n:11.8f}"
FormatMeanMotion(n) ==
    IF n.kind = "nan" THEN RJust(<<"n", "a", "n">>, 11)
    ELSE IF n.kind = "inf" THEN RJust(<<"i", "n", "f">>, 11)
    ELSE RJust(IntStr(n.ip) \o <<".">> \o ZeroPad(n.frac, 8), 11)

\* The exception raised by lines 53-83, or "none": the float division of
\* line 59 (a**3 is 0 exactly when a is) and the true divisions of lines 73
\* and 74 raise ZeroDivisionError on a zero divisor.
RaisedNoCheck(a, num_planes, sats_per_plane) ==
    IF a = 0 THEN "ZeroDivisionError" ELSE "none"

Raised(a, num_planes, sats_per_plane) ==
    IF a = 0 THEN "ZeroDivisionError"
    ELSE IF num_planes = 0 THEN "ZeroDivisionError"
    ELSE IF num_planes * sats_per_plane = 0 THEN "ZeroDivisionError"
    ELSE "none"

(***************************************************************************)
(* Epoch (lines 63-69).                                                    *)
(***************************************************************************)
\* hour_fraction = (hour + minute/60 + second/3600) / 24
HourFraction(t) == Rat(3600 * t.hour + 60 * t.minute + t.second, 86400)

\* f"{epoch_year:02d}{epoch_day:012.8f}"
EpochStr(year2, yday, frac) ==
    LET d == Decimals8(yday, frac)
    IN  ZeroPad(year2, 2)
        \o ZFill(IntStr(d[1]) \o <<".">> \o ZeroPad(d[2], 8), 12)

(***************************************************************************)
(* Per-satellite elements and lines (lines 85-143).                        *)
(***************************************************************************)
\* delta_raan = 360 / num_planes
DeltaRaan(num_planes) == Rat(360, num_planes)

\* phase_unit = (walker_F * 360) / total_sats
PhaseUnitOneForZero(walker_F, total) ==
    Rat((IF walker_F = 0 THEN 1 ELSE walker_F) * 360, total)

PhaseUnit(walker_F, total) == Rat(walker_F * 360, total)

\* raan = (plane * delta_raan) % 360
RaanNoPlane(p, dr) == RatMod360(dr)

Raan(p, dr) == RatMod360(RatMul(p, dr))

\* walker_phase_offset = (plane * phase_unit) % 360
WalkerPhaseOffset(p, pu) == RatMod360(RatMul(p, pu))

\* M = (sat * in_plane_spacing + walker_phase_offset) % 360
MeanAnomalyNoWrap(s, sats_per_plane, offset) ==
    RatAdd(RatMul(s, Rat(360, sats_per_plane)), offset)

MeanAnomaly(s, sats_per_plane, offset) ==
    RatMod360(RatAdd(RatMul(s, Rat(360, sats_per_plane)), offset))

\* sat_number = base_norad_id + sat_counter
SatNumberFixed(base, counter) == base

SatNumber(base, counter) == base + counter

\* sat_name = f"{clean_name}{plane+1:03d}-{sat+1:02d}"
SatNameSwapped(name, p, s) ==
    CleanName(name) \o ZeroPad(s + 1, 3) \o <<"-">> \o ZeroPad(p + 1, 2)

SatName(name, p, s) ==
    CleanName(name) \o ZeroPad(p + 1, 3) \o <<"-">> \o ZeroPad(s + 1, 2)

\* the literal f" .00000000  00000+0  00000-0 0  9999"
Line1Tail ==
    <<" ", ".", "0", "0", "0", "0", "0", "0", "0", "0", " ", " ",
      "0", "0", "0", "0", "0", "+", "0", " ", " ",
      "0", "0", "0", "0", "0", "-", "0", " ", "0", " ", " ",
      "9", "9", "9", "9">>

\* the body with the blank before the epoch left out
Line1BodyNoGap(sat_number, li, epoch_str) ==
    <<"1", " ">> \o ZeroPad(sat_number, 5) \o <<"U", " ">>
    \o ZeroPad(li.launch_year, 2) \o ZeroPad(li.launch_number, 3)
    \o LJust(li.launch_piece, 3) \o epoch_str \o <<" ">>
    \o Line1Tail

Line1Body(sat_number, li, epoch_str) ==
    <<"1", " ">> \o ZeroPad(sat_number, 5) \o <<"U", " ">>
    \o ZeroPad(li.launch_year, 2) \o ZeroPad(li.launch_number, 3)
    \o LJust(li.launch_piece, 3) \o <<" ">> \o epoch_str \o <<" ">>
    \o Line1Tail

\* int(e*1e7) with e = 0.0, and omega = 0
Line2Body(sat_number, inclination, raan, M, n) ==
    <<"2", " ">> \o ZeroPad(sat_number, 5) \o <<" ">>
    \o FormatFixed4(inclination, 8) \o <<" ">>
    \o FormatFixed4(raan, 8) \o <<" ">>
    \o ZeroPad(0, 7) \o <<" ">>
    \o FormatFixed4(Rat(0, 1), 8) \o <<" ">>
    \o FormatFixed4(M, 8) \o <<" ">>
    \o FormatMeanMotion(n) \o <<" ", " ", " ", " ", "1">>

\* body[:68].ljust(68)
Fit68NoCut(body) == LJust(body, 68)

Fit68(body) == LJust(Take(body, 68), 68)

\* body + str(chk)
WithChecksum(body) == body \o IntStr(calculate_checksum(body).value)

\* tle_lines.extend([sat_name, line1, line2])
ExtendLinesNoName(lines, sat_name, line1, line2) == lines \o <<line1, line2>>

ExtendLines(lines, sat_name, line1, line2) ==
    lines \o <<sat_name, line1, line2>>

(***************************************************************************)
(* Inputs of the model.                                                    *)
(***************************************************************************)
\* altitude in thousandths of a km: 550 km, and the altitudes that make the
\* semi-major axis 100 km, 0 and negative
Altitudes == {550000, -6278137, -6378137, -7000000}

\* inclination in degrees: 53.0, and 1234.5 (too wide for its 8 columns)
Inclinations == {Rat(530000, 10000), Rat(12345000, 10000)}

PlaneCounts == 0..MaxPlanes

SatCounts == 0..MaxSats

\* 0, 1 and a phasing factor larger than any total of the model
WalkerFs == {0, 1, MaxPlanes * MaxSats + 3}

\* the default "CONSTELLATION"
DefaultName ==
    <<"C", "O", "N", "S", "T", "E", "L", "L", "A", "T", "I", "O", "N">>

Names == {DefaultName, <<"s", "k", "y", " ", "_", "7", "!", "-", "b">>}

\* random.randint(10000, 90000)
NoradLo == 10000

NoradHi == 90000

\* the random choices of one generate_random_launch_info call: the oldest
\* year, number 1 and piece 'A'; the current year, number 999 and piece
\* 'ZZ'; a year in between, number 57 and piece 'AB'
DrawLow == [year_idx |-> 0, number |-> 1, piece_idx |-> 0]

DrawHigh == [year_idx |-> 4, number |-> 999, piece_idx |-> 701]

DrawMid == [year_idx |-> 2, number |-> 57, piece_idx |-> 27]

\* what the random source yields during one run, fixed by its state when
\* the run starts: the result of random.randint(10000, 90000) (either end of
\* the range), then the choices of the successive
\* generate_random_launch_info calls (repeated in a cycle)
RandomStreams ==
    { [randint |-> NoradLo, launches |-> <<DrawLow, DrawMid>>],
      [randint |-> NoradHi, launches |-> <<DrawHigh, DrawLow>>] }

\* the instants datetime.now() can return, in the order they pass
Instants ==
    << [year |-> 2025, yday |-> 365, hour |-> 23, minute |-> 59, second |-> 59],
       [year |-> 2026, yday |-> 1,   hour |-> 0,  minute |-> 0,  second |-> 0] >>

\* inputs of calculate_checksum: a 66-character start followed by up to
\* MaxTail characters, so that the 68-character window is crossed
ChecksumStarts ==
    { Repeat("0", 33) \o Repeat(" ", 33),
      Repeat("A", 33) \o Repeat(" ", 33),
      Repeat("9", 66) }

ChecksumTailChars == {"0", "7", "-", "A", " ", SuperscriptTwo}

ChecksumInputs ==
    { st \o tl : st \in ChecksumStarts,
                 tl \in UNION { [1..k -> ChecksumTailChars] : k \in 0..MaxTail } }

\* inputs of generate_tle_file_content
FileLineSamples ==
    { <<>>, <<"A">>, <<"1", " ", "2">>,
      <<"S", "A", "T", "0", "0", "1", "-", "0", "1">> }

FileInputs == UNION { [1..k -> FileLineSamples] : k \in 0..MaxLines }

(***************************************************************************)
(* State.                                                                  *)
(***************************************************************************)
VARIABLES
    pc,             \* "idle", "loop", "done" (returned), "failed" (raised)
    args,           \* the arguments of the call
    err,            \* the exception the call raised, or "none"
    clock,          \* index in Instants of the current instant
    rng,            \* what the random source will yield
    n,              \* mean motion
    epoch_year,
    epoch_day,      \* [yday, frac]: day_of_year + hour_fraction
    total_sats,
    delta_raan,
    phase_unit,
    tle_lines,
    sat_data,
    base_norad_id,
    sat_counter,
    plane,          \* the outer loop's index
    sat,            \* the inner loop's index
    ret,            \* the value returned: [tle_lines, constellation_data]
    chk_line,       \* argument of a calculate_checksum call
    chk_result,     \* its outcome
    file_lines,     \* argument of a generate_tle_file_content call
    file_content,   \* its result
    it_in,          \* the inputs of one loop iteration taken on its own
    it_out,         \* the name line, line 1 and line 2 it appends
    session,        \* st.session_state of the page's session
    page,           \* what the latest run of the page's script rendered
    history         \* the runs of the script so far, each with the password
                    \* submission that triggered it and what check_password
                    \* returned

locals == <<n, epoch_year, epoch_day, total_sats, delta_raan, phase_unit,
            tle_lines, sat_data, base_norad_id, sat_counter, plane, sat>>

pure == <<chk_line, chk_result, file_lines, file_content>>

iteration == <<it_in, it_out>>

ui == <<session, page, history>>

\* everything outside the generate_constellation_tle call
outside == <<pure, iteration, ui>>

vars == <<pc, args, err, clock, rng, locals, ret, outside>>

Pending == [raised |-> "pending", value |-> 0]

InitCall ==
    /\ pc = "idle"
    /\ args = <<>>
    /\ err = "none"
    /\ n = [kind |-> "unset", ip |-> 0, frac |-> 0]
    /\ epoch_year = 0
    /\ epoch_day = [yday |-> 0, frac |-> Rat(0, 1)]
    /\ total_sats = 0
    /\ delta_raan = Rat(0, 1)
    /\ phase_unit = Rat(0, 1)
    /\ tle_lines = <<>>
    /\ sat_data = <<>>
    /\ base_norad_id = 0
    /\ sat_counter = 0
    /\ plane = 0
    /\ sat = 0
    /\ ret = <<>>

InitPure ==
    /\ chk_line = <<>>
    /\ chk_result = Pending
    /\ file_lines = <<>>
    /\ file_content = <<>>

InitIteration ==
    /\ it_in = <<>>
    /\ it_out = <<>>

\* a key that st.session_state does not hold
Absent == "<absent>"

\* a session that has not run the script yet
InitUi ==
    /\ session = [password_correct |-> Absent, password |-> Absent,
                  random_params_set |-> FALSE, constellation_name |-> <<>>,
                  generate_constellation |-> FALSE]
    /\ page = "none"
    /\ history = <<>>

InitOutside ==
    /\ InitPure
    /\ InitIteration
    /\ InitUi

Init ==
    /\ InitCall
    /\ InitOutside
    /\ clock \in 1..Len(Instants)
    /\ rng \in RandomStreams

(***************************************************************************)
(* The values lines 53-83 compute before the loop, for the arguments a,    *)
(* the clock reading now and the NORAD base drawn at line 81.              *)
(***************************************************************************)
Preamble(a, now, base) ==
    [args          |-> a,
     n             |-> MeanMotion(SemiMajorAxis(a.altitude)),
     epoch_year    |-> now.year % 100,
     epoch_day     |-> [yday |-> now.yday, frac |-> HourFraction(now)],
     total_sats    |-> a.num_planes * a.sats_per_plane,
     delta_raan    |-> DeltaRaan(a.num_planes),
     phase_unit    |-> PhaseUnit(a.walker_F,
                                 a.num_planes * a.sats_per_plane),
     base_norad_id |-> base]

(***************************************************************************)
(* The body of the inner loop, lines 92-141 (with the plane's RAAN and     *)
(* phase offset of lines 87-90): what the iteration for slot s of plane p  *)
(* appends when counter satellites came before it, current_year is the     *)
(* clock's year and draw is the launch information drawn at line 99.       *)
(***************************************************************************)
LoopBody(f, current_year, draw, p, s, counter) ==
    LET raan       == Raan(p, f.delta_raan)
        offset     == WalkerPhaseOffset(p, f.phase_unit)
        M          == MeanAnomaly(s, f.args.sats_per_plane, offset)
        sat_number == SatNumber(f.base_norad_id, counter)
        li         == generate_random_launch_info(current_year, draw)
        sat_name   == SatName(f.args.constellation_name, p, s)
        epoch_str  == EpochStr(f.epoch_year, f.epoch_day.yday,
                               f.epoch_day.frac)
        line1      == WithChecksum(Fit68(Line1Body(sat_number, li, epoch_str)))
        line2      == WithChecksum(Fit68(Line2Body(sat_number,
                                                   f.args.inclination,
                                                   raan, M, f.n)))
    IN  [sat_name |-> sat_name, line1 |-> line1, line2 |-> line2,
         row |-> [plane |-> p + 1, sat |-> s + 1,
                  norad_id |-> sat_number, raan |-> raan,
                  mean_anomaly |-> M, name |-> sat_name]]

\* the same with the epoch read from the clock again
FrameFreshEpoch ==
    [args |-> args, n |-> n, epoch_year |-> Instants[clock].year % 100,
     epoch_day |-> [yday |-> Instants[clock].yday,
                    frac |-> HourFraction(Instants[clock])],
     total_sats |-> total_sats,
     delta_raan |-> delta_raan, phase_unit |-> phase_unit,
     base_norad_id |-> base_norad_id]

\* the values of lines 53-83 as the running call holds them
Frame ==
    [args |-> args, n |-> n, epoch_year |-> epoch_year,
     epoch_day |-> epoch_day, total_sats |-> total_sats,
     delta_raan |-> delta_raan, phase_unit |-> phase_unit,
     base_norad_id |-> base_norad_id]

(***************************************************************************)
(* generate_constellation_tle, lines 53-83: the constants, the epoch, the  *)
(* spacings and the NORAD base; the call raises or enters the loop.        *)
(***************************************************************************)
Enter(altitude, inclination, num_planes, sats_per_plane, walker_F, name) ==
    LET a   == SemiMajorAxis(altitude)
        exc == Raised(a, num_planes, sats_per_plane)
        f   == Preamble(args', Instants[clock], rng.randint)
    IN  /\ pc = "idle"
        /\ args' = [altitude |-> altitude, inclination |-> inclination,
                    num_planes |-> num_planes,
                    sats_per_plane |-> sats_per_plane,
                    walker_F |-> walker_F, constellation_name |-> name]
        /\ IF exc # "none"
           THEN /\ pc' = "failed"
                /\ err' = exc
                /\ UNCHANGED locals
           ELSE /\ pc' = "loop"
                /\ err' = "none"
                /\ n' = f.n
                /\ epoch_year' = f.epoch_year
                /\ epoch_day' = f.epoch_day
                /\ total_sats' = f.total_sats
                /\ delta_raan' = f.delta_raan
                /\ phase_unit' = f.phase_unit
                /\ tle_lines' = <<>>
                /\ sat_data' = <<>>
                /\ base_norad_id' = f.base_norad_id
                /\ sat_counter' = 0
                /\ plane' = 0
                /\ sat' = 0
        /\ UNCHANGED <<clock, rng, ret, outside>>

Call ==
    \E altitude \in Altitudes, inclination \in Inclinations,
       num_planes \in PlaneCounts, sats_per_plane \in SatCounts,
       walker_F \in WalkerFs, name \in Names :
        Enter(altitude, inclination, num_planes, sats_per_plane, walker_F,
              name)

(***************************************************************************)
(* One iteration of the inner loop, lines 92-143 (with the plane's RAAN    *)
(* and phase offset of lines 87-90).                                       *)
(***************************************************************************)
Iterate ==
    LET draw == rng.launches[(sat_counter % Len(rng.launches)) + 1]
        out  == LoopBody(Frame, Instants[clock].year, draw, plane, sat,
                         sat_counter)
    IN  /\ pc = "loop"
        /\ plane < args.num_planes
        /\ sat < args.sats_per_plane
        /\ tle_lines' = ExtendLines(tle_lines, out.sat_name, out.line1,
                                    out.line2)
        /\ sat_data' = Append(sat_data, out.row)
        /\ sat_counter' = sat_counter + 1
        /\ IF sat + 1 < args.sats_per_plane
           THEN /\ sat' = sat + 1
                /\ plane' = plane
           ELSE /\ sat' = 0
                /\ plane' = plane + 1
        /\ UNCHANGED <<pc, args, err, clock, rng, n, epoch_year, epoch_day,
                       total_sats, delta_raan, phase_unit, base_norad_id,
                       ret, outside>>

\* both loops have run out
LoopFinished == plane >= args.num_planes \/ args.sats_per_plane <= 0

(***************************************************************************)
(* Lines 145-163: the summary and the return.                              *)
(***************************************************************************)
Return ==
    /\ pc = "loop"
    /\ LoopFinished
    /\ pc' = "done"
    /\ ret' = [tle_lines |-> tle_lines,
               constellation_data |->
                 [total_satellites |-> total_sats,
                  num_planes       |-> args.num_planes,
                  sats_per_plane   |-> args.sats_per_plane,
                  walker_F         |-> args.walker_F,
                  altitude         |-> args.altitude,
                  inclination      |-> args.inclination,
                  mean_motion      |-> n,
                  orbital_period   |-> [minutes |-> 1440, per_rev |-> n],
                  raan_spacing     |-> delta_raan,
                  phase_unit       |-> phase_unit,
                  epoch_year       |-> epoch_year,
                  epoch_day        |-> epoch_day,
                  satellite_data   |-> sat_data,
                  base_norad_id    |-> base_norad_id]]
    /\ UNCHANGED <<args, err, clock, rng, locals, outside>>

\* the clock advances while the call is pending or running
Tick ==
    /\ pc \in {"idle", "loop"}
    /\ clock < Len(Instants)
    /\ clock' = clock + 1
    /\ UNCHANGED <<pc, args, err, rng, locals, ret, outside>>

Next == Call \/ Iterate \/ Return \/ Tick

Spec == Init /\ [][Next]_vars

(***************************************************************************)
(* calculate_checksum applied to every input of ChecksumInputs.            *)
(***************************************************************************)
InitChecksum ==
    /\ InitCall
    /\ clock = 1
    /\ rng = [randint |-> NoradLo, launches |-> <<DrawLow>>]
    /\ chk_line \in ChecksumInputs
    /\ chk_result = Pending
    /\ file_lines = <<>>
    /\ file_content = <<>>
    /\ InitIteration
    /\ InitUi

ApplyChecksum ==
    /\ chk_result = Pending
    /\ chk_result' = calculate_checksum(chk_line)
    /\ UNCHANGED <<pc, args, err, clock, rng, locals, ret, chk_line, file_lines,
                   file_content, iteration, ui>>

NextChecksum == ApplyChecksum

SpecChecksum == InitChecksum /\ [][NextChecksum]_vars

(***************************************************************************)
(* generate_tle_file_content applied to every input of FileInputs.         *)
(***************************************************************************)
NoContent == <<"pending">>

InitFile ==
    /\ InitCall
    /\ clock = 1
    /\ rng = [randint |-> NoradLo, launches |-> <<DrawLow>>]
    /\ chk_line = <<>>
    /\ chk_result = Pending
    /\ file_lines \in FileInputs
    /\ file_content = NoContent
    /\ InitIteration
    /\ InitUi

ApplyFile ==
    /\ file_content = NoContent
    /\ file_content' = generate_tle_file_content(file_lines)
    /\ UNCHANGED <<pc, args, err, clock, rng, locals, ret, chk_line, chk_result,
                   file_lines, iteration, ui>>

NextFile == ApplyFile

SpecFile == InitFile /\ [][NextFile]_vars

(***************************************************************************)
(* One loop iteration on its own: the satellite with counter earlier       *)
(* satellites of a run at the largest constellation the page lets the user *)
(* enter.  By lines 85, 92 and 143 that satellite is slot counter %        *)
(* sats_per_plane of plane counter \div sats_per_plane.                    *)
(***************************************************************************)
UiMaxPlanes == 500

UiMaxSats == 50

IterationCounters == {0, 9999, 10000, UiMaxPlanes * UiMaxSats - 1}

IterationInputs ==
    [args    : [altitude : {550000}, inclination : Inclinations,
                num_planes : {UiMaxPlanes}, sats_per_plane : {UiMaxSats},
                walker_F : WalkerFs, constellation_name : {DefaultName}],
     base    : {r.randint : r \in RandomStreams},
     draw    : {DrawLow, DrawMid, DrawHigh},
     now     : 1..Len(Instants),
     counter : IterationCounters]

InitIterationSpec ==
    /\ InitCall
    /\ InitPure
    /\ clock = 1
    /\ rng = [randint |-> NoradLo, launches |-> <<DrawLow>>]
    /\ it_in \in IterationInputs
    /\ it_out = <<>>
    /\ InitUi

ApplyIteration ==
    /\ it_out = <<>>
    /\ it_out' = LoopBody(Preamble(it_in.args, Instants[it_in.now],
                                   it_in.base),
                          Instants[it_in.now].year, it_in.draw,
                          it_in.counter \div it_in.args.sats_per_plane,
                          it_in.counter % it_in.args.sats_per_plane,
                          it_in.counter)
    /\ UNCHANGED <<pc, args, err, clock, rng, locals, ret, pure, it_in, ui>>

NextIteration == ApplyIteration

SpecIteration == InitIterationSpec /\ [][NextIteration]_vars

(***************************************************************************)
(* The page (streamlit_app.py): the password gate and the generation       *)
(* started from the sidebar.  Every run of the script is main() from its   *)
(* first line; a widget event runs the widget's callback first.            *)
(***************************************************************************)
\* the runs of the script followed in one session
MaxEvents == 5

\* the password of line 60
Password == "SUN2025"

\* what a user may type into the password field
Passwords == {Password, "sun2025", ""}

\* a run that no password submission triggered
NoSubmit == "<none>"

\* results of generate_random_constellation_name (lines 17-29)
SessionNames ==
    { <<"A", "L", "P", "H", "A", "_", "S", "A", "T", "_", "1">>,
      <<"N", "O", "V", "A", "_", "C", "O", "N", "S", "T", "E", "L", "L", "A",
        "T", "I", "O", "N", "_", "9", "9", "9">> }

\* values the sidebar's widgets can hold (lines 140-183)
UiAltitudes == {550000}

UiInclinations == {Rat(530000, 10000)}

UiPlaneCounts == 1..MaxPlanes

UiSatCounts == 1..MaxSats

UiWalkerFs == {0, 1}

\* the comparison of line 60
PasswordMatchesAnyCase(pw) == pw \in {Password, "sun2025"}

PasswordMatches(pw) == pw = Password

\* the callback of the password field (lines 58-64)
password_entered(ss) ==
    IF PasswordMatches(ss.password)
    THEN [ss EXCEPT !.password_correct = "True", !.password = Absent]
    ELSE [ss EXCEPT !.password_correct = "False"]

\* check_password (lines 55-94): its result and what it renders
check_password(ss) ==
    IF ss.password_correct = Absent
    THEN [result |-> FALSE, page |-> "prompt"]
    ELSE IF ss.password_correct # "True"
    THEN [result |-> FALSE, page |-> "prompt_error"]
    ELSE [result |-> TRUE, page |-> "app"]

\* main() up to line 206 for a run in which the button click was pressed
\* ("none" when no button was) and the random name, were one drawn, is name.
\* The password field registers its key with an empty value when rendered;
\* st.rerun() at line 137 starts the script again, which calls
\* check_password a second time.
MainPage(ss, click, name) ==
    LET c  == check_password(ss)
        s1 == IF ss.random_params_set THEN ss
              ELSE [ss EXCEPT !.constellation_name = name,
                              !.random_params_set = TRUE]
        s2 == IF click = "generate"
              THEN [s1 EXCEPT !.generate_constellation = TRUE]
              ELSE s1
    IN  IF ~c.result
        THEN [session |-> [ss EXCEPT !.password =
                                        IF @ = Absent THEN "" ELSE @],
              page    |-> c.page,
              results |-> <<FALSE>>]
        ELSE IF click = "randomize"
        THEN [session |-> [s1 EXCEPT !.constellation_name = name],
              page    |-> IF s1.generate_constellation
                          THEN "app_generating" ELSE "app",
              results |-> <<TRUE, TRUE>>]
        ELSE [session |-> s2,
              page    |-> IF s2.generate_constellation
                          THEN "app_generating" ELSE "app",
              results |-> <<TRUE>>]

\* one run of the script, after the submission of the password submitted
\* (NoSubmit when the run has another cause)
Run(submitted, click, name) ==
    LET s0  == IF submitted = NoSubmit THEN session
               ELSE password_entered([session EXCEPT !.password = submitted])
        out == MainPage(s0, click, name)
    IN  /\ pc = "idle"
        /\ page # "app_generating"
        /\ Len(history) < MaxEvents
        /\ session' = out.session
        /\ page' = out.page
        /\ history' = history
               \o [i \in 1..Len(out.results) |->
                     [submitted |-> IF i = 1 THEN submitted ELSE NoSubmit,
                      result    |-> out.results[i]]]
        /\ UNCHANGED <<pc, args, err, clock, rng, locals, ret, pure,
                       iteration>>

\* the page is opened or runs again without a widget event
Load == \E name \in SessionNames : Run(NoSubmit, "none", name)

\* the user changes the password field, which the latest run rendered
SubmitPassword ==
    /\ page \in {"prompt", "prompt_error"}
    /\ \E pw \in Passwords, name \in SessionNames :
          /\ pw # session.password
          /\ Run(pw, "none", name)

\* the Randomize button (lines 129-137)
ClickRandomize ==
    /\ page = "app"
    /\ \E name \in SessionNames : Run(NoSubmit, "randomize", name)

\* the Generate button (lines 189-190)
ClickGenerate ==
    /\ page = "app"
    /\ \E name \in SessionNames : Run(NoSubmit, "generate", name)

\* lines 206-231 of the same run: the call of generate_constellation_tle
\* with the five widget values and no constellation_name
UiGenerate ==
    /\ page = "app_generating"
    /\ \E altitude \in UiAltitudes, inclination \in UiInclinations,
          num_planes \in UiPlaneCounts, sats_per_plane \in UiSatCounts,
          walker_F \in UiWalkerFs :
          Enter(altitude, inclination, num_planes, sats_per_plane, walker_F,
                DefaultName)

InitPage ==
    /\ InitCall
    /\ InitOutside
    /\ clock = 1
    /\ rng \in RandomStreams

NextPage ==
    \/ Load
    \/ SubmitPassword
    \/ ClickRandomize
    \/ ClickGenerate
    \/ UiGenerate
    \/ Iterate
    \/ Return

SpecPage == InitPage /\ [][NextPage]_vars

(***************************************************************************)
(* Properties.                                                             *)
(***************************************************************************)
\* the call has passed line 83
Started == pc \in {"loop", "done"}

\* satellites produced so far, and the entries of satellite k (from 0)
Produced == Len(sat_data)

NameLineOf(k) == tle_lines[3 * k + 1]

Line1Of(k) == tle_lines[3 * k + 2]

Line2Of(k) == tle_lines[3 * k + 3]

\* C1: a call with num_planes >= 1 and sats_per_plane >= 1 returns exactly
\* num_planes * sats_per_plane satellites, each as three consecutive entries
\* (name line, line 1, line 2) of tle_lines, and total_satellites and the
\* length of satellite_data both equal that number.
C1_CountAndTriples ==
    (pc = "done" /\ args.num_planes >= 1 /\ args.sats_per_plane >= 1) =>
        LET total == args.num_planes * args.sats_per_plane
            cd    == ret.constellation_data
        IN  /\ Len(ret.tle_lines) = 3 * total
            /\ cd.total_satellites = total
            /\ Len(cd.satellite_data) = total
            /\ \A k \in 0..(total - 1) :
                /\ ret.tle_lines[3 * k + 1] = cd.satellite_data[k + 1].name
                /\ ret.tle_lines[3 * k + 2][1] = "1"
                /\ ret.tle_lines[3 * k + 3][1] = "2"

C1_Witness ==
    /\ pc = "done"
    /\ args.num_planes = MaxPlanes
    /\ args.sats_per_plane = MaxSats
    /\ Len(ret.tle_lines) = 3 * MaxPlanes * MaxSats

\* C2: within a run the NORAD ids are pairwise distinct and ascend by one in
\* output order: satellite k (from 0) has id base_norad_id + k, in the table
\* and in columns 3-7 of both of its lines; the base lies in 10000..90000
\* and is the value the summary reports.
C2_NoradIds ==
    Started =>
        /\ base_norad_id \in 10000..90000
        /\ \A k \in 0..(Produced - 1) :
            /\ sat_data[k + 1].norad_id = base_norad_id + k
            /\ SubSeq(Line1Of(k), 3, 7) = ZeroPad(base_norad_id + k, 5)
            /\ SubSeq(Line2Of(k), 3, 7) = ZeroPad(base_norad_id + k, 5)
        /\ \A j, k \in 1..Produced :
            j # k => sat_data[j].norad_id # sat_data[k].norad_id
        /\ pc = "done" =>
            /\ ret.constellation_data.base_norad_id = base_norad_id
            /\ ret.constellation_data.satellite_data = sat_data

C2_Witness ==
    /\ pc = "done"
    /\ Produced = MaxPlanes * MaxSats
    /\ base_norad_id = 90000
    /\ sat_data[Produced].norad_id = 90000 + MaxPlanes * MaxSats - 1

\* a line is 69 characters long and ends with the checksum digit of its
\* first 68 characters
WellFormedLine(line) ==
    /\ Len(line) = 69
    /\ LET c == calculate_checksum(SubSeq(line, 1, 68))
       IN  /\ c.raised = "none"
           /\ c.value \in 0..9
           /\ line[69] = DigitChar(c.value)

\* C3: line 1 and line 2 of every satellite, whatever the field values, are
\* 69 characters long and end with the digit calculate_checksum yields for
\* their first 68 characters.
C3_LinesAre69WithChecksum ==
    /\ Started =>
        \A k \in 0..(Produced - 1) :
            WellFormedLine(Line1Of(k)) /\ WellFormedLine(Line2Of(k))
    /\ pc = "done" => ret.tle_lines = tle_lines

\* a returned run whose inclination and mean motion are both too wide for
\* their columns
C3_Witness ==
    /\ pc = "done"
    /\ Produced >= 2
    /\ Len(FormatFixed4(args.inclination, 8)) > 8
    /\ Len(FormatMeanMotion(n)) > 11
    /\ Len(Line2Of(Produced - 1)) = 69

\* C5: every satellite of plane p (from 0) has RAAN (p * 360/num_planes)
\* mod 360, which lies in [0, 360); a returned run has exactly num_planes
\* distinct RAAN values, each shared by exactly sats_per_plane satellites.
C5_Raan ==
    /\ Started =>
        \A k \in 1..Produced :
            LET p == sat_data[k].plane - 1
                r == sat_data[k].raan
            IN  /\ r = Rat((p * 360) % (360 * args.num_planes), args.num_planes)
                /\ r.num >= 0
                /\ r.num < 360 * r.den
    /\ (pc = "done" /\ args.num_planes >= 1 /\ args.sats_per_plane >= 1) =>
        LET values == {sat_data[k].raan : k \in 1..Produced}
        IN  /\ Cardinality(values) = args.num_planes
            /\ \A v \in values :
                Cardinality({k \in 1..Produced : sat_data[k].raan = v})
                    = args.sats_per_plane

C5_Witness ==
    /\ pc = "done"
    /\ args.num_planes = MaxPlanes
    /\ args.sats_per_plane = MaxSats
    /\ sat_data[Produced].raan = Rat((MaxPlanes - 1) * 360, MaxPlanes)

\* C6: the satellite of plane p and slot s (from 0) has mean anomaly
\* (s * 360/sats_per_plane + ((p * walker_F * 360 / total) mod 360)) mod 360,
\* which lies in [0, 360), also for walker_F larger than the total.
C6_MeanAnomaly ==
    Started =>
        \A k \in 1..Produced :
            LET p     == sat_data[k].plane - 1
                s     == sat_data[k].sat - 1
                total == args.num_planes * args.sats_per_plane
                off   == (p * args.walker_F * 360) % (360 * total)
                M     == sat_data[k].mean_anomaly
            IN  /\ M = Rat((s * 360 * args.num_planes + off) % (360 * total),
                           total)
                /\ M.num >= 0
                /\ M.num < 360 * M.den

\* a returned run with walker_F above the total in which the sum of the slot
\* angle and the phase offset passed 360
C6_Witness ==
    /\ pc = "done"
    /\ args.walker_F > args.num_planes * args.sats_per_plane
    /\ \E k \in 1..Produced :
        /\ sat_data[k].plane > 1
        /\ sat_data[k].sat > 1
        /\ RatLess(sat_data[k].mean_anomaly,
                   Rat((sat_data[k].sat - 1) * 360, args.sats_per_plane))

\* C7: satellites come out plane-major, slot-minor: satellite k (from 0) has
\* plane k div sats_per_plane + 1 and slot k mod sats_per_plane + 1, its
\* name line ends with the 3-digit plane, '-' and the 2-digit slot, and its
\* id is base + k; tle_lines and satellite_data follow the same order.
C7_PlaneMajorOrder ==
    Started =>
        \A k \in 0..(Produced - 1) :
            LET row == sat_data[k + 1]
                pl  == (k \div args.sats_per_plane) + 1
                sl  == (k % args.sats_per_plane) + 1
                nm  == NameLineOf(k)
            IN  /\ row.plane = pl
                /\ row.sat = sl
                /\ row.norad_id = base_norad_id + k
                /\ row.name = nm
                /\ Len(nm) >= 6
                /\ SubSeq(nm, Len(nm) - 5, Len(nm))
                       = ZeroPad(pl, 3) \o <<"-">> \o ZeroPad(sl, 2)
                /\ SubSeq(Line1Of(k), 3, 7) = ZeroPad(row.norad_id, 5)
                /\ SubSeq(Line2Of(k), 3, 7) = ZeroPad(row.norad_id, 5)

C7_Witness ==
    /\ pc = "done"
    /\ args.num_planes = MaxPlanes
    /\ args.sats_per_plane = MaxSats
    /\ sat_data[MaxSats + 1].plane = 2
    /\ sat_data[MaxSats + 1].sat = 1
    /\ sat_data[MaxSats].sat = MaxSats

\* the sum the checksum rule prescribes for a line: over its first 68
\* characters, the digit value of a decimal digit, 1 for '-', 0 otherwise
RECURSIVE RuleSum(_, _)
RuleSum(line, d) ==
    LET upto  == IF Len(line) < 68 THEN Len(line) ELSE 68
        count == Cardinality({i \in 1..upto : line[i] = DigitChar(d)})
    IN  IF d = 0 THEN Cardinality({i \in 1..upto : line[i] = "-"})
        ELSE d * count + RuleSum(line, d - 1)

\* C4: for every input string calculate_checksum yields the sum, over the
\* first 68 characters only, of the digit value of a decimal digit, 1 for
\* '-' and 0 for every other character, mod 10: a result in 0..9.
C4_ChecksumRule ==
    chk_result # Pending =>
        /\ chk_result.raised = "none"
        /\ chk_result.value \in 0..9
        /\ chk_result.value = RuleSum(chk_line, 9) % 10

\* C8: for every list of lines, the empty list included, the content is the
\* concatenation in order of each line followed by CR+LF, and nothing else.
RECURSIVE EachLineTerminated(_)
EachLineTerminated(lines) ==
    IF lines = <<>> THEN <<>>
    ELSE lines[1] \o <<"\r", "\n">> \o EachLineTerminated(Tail(lines))

C8_EachLineTerminated ==
    file_content # NoContent =>
        file_content = EachLineTerminated(file_lines)

\* the call was given zero planes or zero satellites per plane
ZeroCount == pc # "idle" /\ (args.num_planes = 0 \/ args.sats_per_plane = 0)

\* C9 as stated: a call with num_planes = 0 or sats_per_plane = 0 fails with
\* InvalidParameterError before any satellite is produced.
C9_FailsWithInvalidParameterError ==
    ZeroCount =>
        /\ pc = "failed"
        /\ err = "InvalidParameterError"
        /\ tle_lines = <<>>
        /\ sat_data = <<>>

\* C9, amended: a call with num_planes = 0 or sats_per_plane = 0 fails with
\* ZeroDivisionError before any satellite is produced: no entry of tle_lines
\* or of satellite_data is created or returned.
C9_FailsWithZeroDivisionError ==
    ZeroCount =>
        /\ pc = "failed"
        /\ err = "ZeroDivisionError"
        /\ tle_lines = <<>>
        /\ sat_data = <<>>
        /\ ret = <<>>

\* the division of line 74 failed although line 73 passed
C9_Witness ==
    /\ pc = "failed"
    /\ args.num_planes >= 1
    /\ args.sats_per_plane = 0
    /\ SemiMajorAxis(args.altitude) > 0
    /\ err = "ZeroDivisionError"

\* C10: a call whose semi-major axis is not positive returns no TLE lines,
\* and a returned run has a strictly positive mean motion.  (The claim also
\* names the failure InvalidParameterError; the call with a = 0 raises
\* ZeroDivisionError.)
C10_NoReturnWithoutPositiveAxis ==
    pc = "done" =>
        /\ SemiMajorAxis(args.altitude) > 0
        /\ ret.constellation_data.mean_motion.kind = "finite"
        /\ \/ ret.constellation_data.mean_motion.ip > 0
           \/ ret.constellation_data.mean_motion.frac > 0

(***************************************************************************)
(* C11: no line is ever built from a NORAD id of 100000 or more: an        *)
(* iteration that appends its lines (the code has no failing outcome) used *)
(* an id of at most 99999, which fills columns 3-7 of both lines and       *)
(* leaves column 8 to the classification 'U' of line 1 and to the blank of *)
(* line 2.                                                                 *)
(***************************************************************************)
C11_NoradIdFitsOrFails ==
    it_out # <<>> =>
        LET id == it_in.base + it_in.counter
        IN  /\ id <= 99999
            /\ SubSeq(it_out.line1, 3, 8) = ZeroPad(id, 5) \o <<"U">>
            /\ SubSeq(it_out.line2, 3, 8) = ZeroPad(id, 5) \o <<" ">>

(***************************************************************************)
(* C12: with walker_F = 0 the phase unit is 0 and no plane is offset: the  *)
(* mean anomaly of slot s is s * 360 / sats_per_plane in every plane, so   *)
(* all planes carry the same sequence of mean anomalies; a returned run    *)
(* with one plane of one satellite holds a single satellite with RAAN 0    *)
(* and mean anomaly 0.                                                     *)
(***************************************************************************)
C12_ZeroPhasing ==
    (Started /\ args.walker_F = 0) =>
        /\ phase_unit = Rat(0, 1)
        /\ \A k \in 1..Produced :
              /\ WalkerPhaseOffset(sat_data[k].plane - 1, phase_unit)
                    = Rat(0, 1)
              /\ sat_data[k].mean_anomaly
                    = Rat((sat_data[k].sat - 1) * 360, args.sats_per_plane)
        /\ \A j, k \in 1..Produced :
              sat_data[j].sat = sat_data[k].sat
                  => sat_data[j].mean_anomaly = sat_data[k].mean_anomaly
        /\ (pc = "done" /\ args.num_planes = 1 /\ args.sats_per_plane = 1) =>
              /\ Len(ret.constellation_data.satellite_data) = 1
              /\ ret.constellation_data.satellite_data[1].raan = Rat(0, 1)
              /\ ret.constellation_data.satellite_data[1].mean_anomaly
                    = Rat(0, 1)

\* a returned run with walker_F = 0 and several planes of several slots
C12_Witness ==
    /\ pc = "done"
    /\ args.walker_F = 0
    /\ args.num_planes = MaxPlanes
    /\ args.sats_per_plane = MaxSats
    /\ Produced = MaxPlanes * MaxSats
    /\ sat_data[Produced].plane = MaxPlanes
    /\ sat_data[Produced].mean_anomaly = Rat((MaxSats - 1) * 360, MaxSats)

\* every field of the run's lines fits its width: the ids have at most five
\* digits, the inclination is below 1000 and the mean motion below 100 (the
\* launch number, launch piece, epoch day and angles always fit)
FieldsFit ==
    /\ base_norad_id + total_sats - 1 <= 99999
    /\ RatLess(args.inclination, Rat(1000, 1))
    /\ n.kind = "finite"
    /\ n.ip < 100

\* the launch information line 99 drew for satellite k (from 0), had the
\* clock shown Instants[i]
LaunchOf(k, i) ==
    generate_random_launch_info(Instants[i].year,
                                rng.launches[(k % Len(rng.launches)) + 1])

(***************************************************************************)
(* C13: when every field fits its width, the cut-and-pad to 68 characters  *)
(* loses no field: the body of line 2 is exactly 68 characters long and is *)
(* kept whole, the body of line 1 is 69 characters long and loses only the *)
(* last '9' of the literal '9999', so that columns 66-68 of line 1 read    *)
(* '999', and every field stands in its fixed column.                      *)
(***************************************************************************)
C13_NoFieldLost ==
    (Started /\ FieldsFit) =>
        \A k \in 0..(Produced - 1) :
            LET row   == sat_data[k + 1]
                line1 == Line1Of(k)
                line2 == Line2Of(k)
                body2 == Line2Body(row.norad_id, args.inclination, row.raan,
                                   row.mean_anomaly, n)
                epoch == EpochStr(epoch_year, epoch_day.yday, epoch_day.frac)
            IN  /\ Len(body2) = 68
                /\ SubSeq(line2, 1, 68) = body2
                /\ \E i \in 1..clock :
                      LET body1 == Line1Body(row.norad_id, LaunchOf(k, i),
                                             epoch)
                      IN  /\ Len(body1) = 69
                          /\ SubSeq(line1, 1, 68) = SubSeq(body1, 1, 68)
                          /\ SubSeq(body1, 66, 69) = <<"9", "9", "9", "9">>
                /\ SubSeq(line1, 66, 68) = <<"9", "9", "9">>
                /\ SubSeq(line1, 1, 2) = <<"1", " ">>
                /\ SubSeq(line1, 3, 7) = ZeroPad(row.norad_id, 5)
                /\ SubSeq(line1, 8, 9) = <<"U", " ">>
                /\ \A c \in 10..14 : line1[c] \in AsciiDigits
                /\ line1[15] \in UpperSet
                /\ line1[16] \in UpperSet \cup {" "}
                /\ SubSeq(line1, 17, 18) = <<" ", " ">>
                /\ SubSeq(line1, 19, 32) = epoch
                /\ line1[33] = " "
                /\ SubSeq(line1, 34, 65) = SubSeq(Line1Tail, 1, 32)
                /\ SubSeq(line2, 1, 2) = <<"2", " ">>
                /\ SubSeq(line2, 3, 7) = ZeroPad(row.norad_id, 5)
                /\ SubSeq(line2, 9, 16) = FormatFixed4(args.inclination, 8)
                /\ SubSeq(line2, 18, 25) = FormatFixed4(row.raan, 8)
                /\ SubSeq(line2, 27, 33) = ZeroPad(0, 7)
                /\ SubSeq(line2, 35, 42) = FormatFixed4(Rat(0, 1), 8)
                /\ SubSeq(line2, 44, 51) = FormatFixed4(row.mean_anomaly, 8)
                /\ SubSeq(line2, 53, 63) = FormatMeanMotion(n)
                /\ SubSeq(line2, 64, 68) = <<" ", " ", " ", " ", "1">>
                /\ \A c \in {8, 17, 26, 34, 43, 52} : line2[c] = " "

\* a returned run whose fields all fit, the first satellite with the largest
\* launch number and a two-letter launch piece
C13_Witness ==
    /\ pc = "done"
    /\ FieldsFit
    /\ Produced = MaxPlanes * MaxSats
    /\ SubSeq(Line1Of(0), 12, 14) = <<"9", "9", "9">>
    /\ Line1Of(0)[16] \in UpperSet

(***************************************************************************)
(* C14: the epoch is read from the clock once, before the loop: however    *)
(* far the clock advances while the loop runs, columns 19-32 of every line *)
(* 1 hold the same epoch field, the 2-digit year followed by the           *)
(* 12-character day with 8 decimals, and its values are the epoch_year and *)
(* epoch_day of the summary.                                               *)
(***************************************************************************)
C14_EpochReadOnce ==
    Started =>
        LET epoch == EpochStr(epoch_year, epoch_day.yday, epoch_day.frac)
        IN  /\ Len(epoch) = 14
            /\ epoch[6] = "."
            /\ \A c \in (1..14) \ {6} : epoch[c] \in AsciiDigits
            /\ \E i \in 1..clock :
                  /\ epoch_year = Instants[i].year % 100
                  /\ epoch_day = [yday |-> Instants[i].yday,
                                  frac |-> HourFraction(Instants[i])]
            /\ \A k \in 0..(Produced - 1) :
                  SubSeq(Line1Of(k), 19, 32) = epoch
            /\ \A j, k \in 0..(Produced - 1) :
                  SubSeq(Line1Of(j), 19, 32) = SubSeq(Line1Of(k), 19, 32)
            /\ pc = "done" =>
                  /\ ret.constellation_data.epoch_year = epoch_year
                  /\ ret.constellation_data.epoch_day = epoch_day

\* a returned run during whose loop the year changed: the first satellite's
\* launch year was drawn in the epoch's year, the last one's in the next
C14_Witness ==
    /\ pc = "done"
    /\ Produced >= 2
    /\ epoch_year = Instants[1].year % 100
    /\ clock = 2
    /\ SubSeq(Line1Of(0), 10, 11) = ZeroPad(LaunchOf(0, 1).launch_year, 2)
    /\ SubSeq(Line1Of(Produced - 1), 10, 11)
          = ZeroPad(LaunchOf(Produced - 1, 2).launch_year, 2)
    /\ SubSeq(Line1Of(Produced - 1), 19, 20) = ZeroPad(epoch_year, 2)

(***************************************************************************)
(* C15: the name line of every satellite generated from the page begins    *)
(* with the session's constellation name (the one the sidebar shows and    *)
(* the download file names use), sanitized and upper-cased, followed by    *)
(* the 3-digit plane number, '-' and the 2-digit slot number.              *)
(***************************************************************************)
C15_NamesCarrySessionName ==
    (page = "app_generating" /\ Started) =>
        \A k \in 0..(Produced - 1) :
            NameLineOf(k) = CleanName(session.constellation_name)
                            \o ZeroPad(sat_data[k + 1].plane, 3) \o <<"-">>
                            \o ZeroPad(sat_data[k + 1].sat, 2)

\* some earlier event of the history submitted the password of line 60
CorrectSubmittedBy(i) ==
    \E j \in 1..i : history[j].submitted = Password

(***************************************************************************)
(* C16: over the runs and password submissions of a session,               *)
(* check_password returns True, and main goes on to the parameters and the *)
(* generation, only if the correct password was submitted before: it       *)
(* returns False before any submission and on the run after an incorrect   *)
(* submission, and True on every run once a correct submission is          *)
(* recorded.                                                               *)
(***************************************************************************)
C16_PasswordGate ==
    /\ \A i \in 1..Len(history) :
          /\ history[i].result = CorrectSubmittedBy(i)
          /\ history[i].submitted \notin {NoSubmit, Password}
                => ~history[i].result
    /\ page \in {"app", "app_generating"} => CorrectSubmittedBy(Len(history))
    /\ pc # "idle" => CorrectSubmittedBy(Len(history))
    /\ session.random_params_set => CorrectSubmittedBy(Len(history))
    /\ (session.password_correct = "True") = CorrectSubmittedBy(Len(history))

\* a session that was refused before any submission and after a wrong one,
\* then admitted by the correct password and again on a later run, and has
\* started a generation
C16_Witness ==
    /\ Len(history) >= 5
    /\ history[1] = [submitted |-> NoSubmit, result |-> FALSE]
    /\ history[2].submitted \in Passwords \ {Password}
    /\ ~history[2].result
    /\ history[3] = [submitted |-> Password, result |-> TRUE]
    /\ history[4] = [submitted |-> NoSubmit, result |-> TRUE]
    /\ history[5] = [submitted |-> NoSubmit, result |-> TRUE]
    /\ pc = "done"

====
